---- MODULE Spec2Model ----
(***************************************************************************)
(* Model of src/app.py, the "Compressor Control" dashboard: a script that  *)
(* is re-run from top to bottom on every refresh.  One run (one cycle)     *)
(* obtains the cached backend client, reads the view selected in the       *)
(* sidebar and renders either the Live Monitor or the Data Explorer.       *)
(*                                                                         *)
(* Strings the code inspects (parameter names, CSV text) are sequences of  *)
(* one-character strings.  Instants are seconds since the epoch (UTC); a   *)
(* timezone-aware timestamp is an instant together with its UTC offset.    *)
(* Sensor values are whole numbers of the unit, NaN or None.               *)
(***************************************************************************)
EXTENDS Integers, Sequences, FiniteSets, TLC

VARIABLES
    val, val2, param,        \* arguments of the get_status calls under study
    status, status2,         \* their results ("unset" before the call)
    table,                   \* rows of the backend table air_compressor, in insertion order
    secrets,                 \* whether st.secrets holds SUPABASE_URL and SUPABASE_KEY
    cacheVal, cachedAt,      \* st.cache_resource entry of init_supabase and when it was stored
    now,                     \* wall clock, seconds (UTC instant)
    app_mode,                \* view run by the last cycle ("none" before the first)
    supabase_client,         \* module global of the last cycle: "client" or "None"
    events,                  \* what the last cycle did, in order: network calls, banners, renders
    failure,                 \* how the backend access of the last cycle ended
    data,                    \* Live Monitor: DataFrame returned by fetch_data
    latest,                  \* Live Monitor: data.iloc[-1] (<<>> when there is none)
    overall_status,          \* Live Monitor: get_overall_status(latest)
    gauges,                  \* Live Monitor: status shown by each gauge
    now_in_ist,              \* Live Monitor: datetime.now(ist) read for the chart filter
    chart_data,              \* Live Monitor: rows handed to the trend chart
    log_entries,             \* Live Monitor: generate_system_log(data)
    chart,                   \* Live Monitor: traces of the trend chart (<<>> when not drawn)
    shown,                   \* Data Explorer: df[display_cols] as displayed
    csv                      \* Data Explorer: text offered for download

statusVars == <<val, val2, param, status, status2>>
envVars    == <<table, secrets, now>>
cacheVars  == <<cacheVal, cachedAt>>
cycleVars  == <<app_mode, supabase_client, events, failure, data, latest,
                overall_status, gauges, now_in_ist, chart_data, chart, log_entries, shown, csv>>
vars       == <<statusVars, envVars, cacheVars, cycleVars>>

----------------------------------------------------------------------------
(* Bounds of the model *)

\* largest numeric sensor value passed to get_status on its own
MaxValue == 81
\* rows the device may have written to the backend table
MaxRows == 2
\* seconds of wall-clock time observed after the start
MaxElapsed == 30
\* rows beyond the query limit the table may hold when the limit is studied
MaxOver == 1

----------------------------------------------------------------------------
(* Strings *)

UpperCase == <<"A","B","C","D","E","F","G","H","I","J","K","L","M",
               "N","O","P","Q","R","S","T","U","V","W","X","Y","Z">>
LowerCase == <<"a","b","c","d","e","f","g","h","i","j","k","l","m",
               "n","o","p","q","r","s","t","u","v","w","x","y","z">>

\* the lower-case letter of each upper-case letter
ToLower == [c \in { UpperCase[k] : k \in 1..26 } |->
               LowerCase[CHOOSE k \in 1..26 : UpperCase[k] = c]]

\* str.lower(), character by character
lower(s) == [i \in 1..Len(s) |-> IF s[i] \in DOMAIN ToLower THEN ToLower[s[i]] ELSE s[i]] \o <<>>

temperature == <<"t","e","m","p","e","r","a","t","u","r","e">>
pressure    == <<"p","r","e","s","s","u","r","e">>
vibration   == <<"v","i","b","r","a","t","i","o","n">>
timestamp   == <<"t","i","m","e","s","t","a","m","p">>

----------------------------------------------------------------------------
(* Sensor values *)

Num(n) == [kind |-> "num", v |-> n]
NaN    == [kind |-> "nan", v |-> 0]
None   == [kind |-> "none", v |-> 0]

\* pd.isna
isna(x) == x.kind \in {"nan", "none"}

\* row[name]: the cell of a row (a record of its four columns) under a column name
Col(row, name) ==
    CASE name = timestamp   -> row.timestamp
      [] name = temperature -> row.temperature
      [] name = pressure    -> row.pressure
      [] name = vibration   -> row.vibration

----------------------------------------------------------------------------
(* Constants & thresholds *)

STATUS_THRESHOLDS ==
    (temperature :> [warn |-> 60, crit |-> 80]) @@
    (pressure    :> [warn |-> 9,  crit |-> 12]) @@
    (vibration   :> [warn |-> 3,  crit |-> 5])

\* STATUS_THRESHOLDS.keys(), in insertion order
ThresholdKeys == <<temperature, pressure, vibration>>

Statuses == {"normal", "warning", "critical"}

\* get_status with strict comparisons
get_status_strict(v, p) ==
    LET key == lower(p) IN
    IF key \notin DOMAIN STATUS_THRESHOLDS \/ isna(v) THEN "normal"
    ELSE LET t == STATUS_THRESHOLDS[key] IN
         IF v.v > t.crit THEN "critical"
         ELSE IF v.v > t.warn THEN "warning"
         ELSE "normal"

\* get_status without the guard for unknown names and missing readings
get_status_unguarded(v, p) ==
    LET key == lower(p) IN
    IF key \notin DOMAIN STATUS_THRESHOLDS THEN "KeyError"
    ELSE IF v.kind = "none" THEN "TypeError"
    ELSE LET t == STATUS_THRESHOLDS[key] IN
         IF v.kind = "num" /\ v.v >= t.crit THEN "critical"
         ELSE IF v.kind = "num" /\ v.v >= t.warn THEN "warning"
         ELSE "normal"

\* get_status with the second comparison turned around
get_status_flipped(v, p) ==
    LET key == lower(p) IN
    IF key \notin DOMAIN STATUS_THRESHOLDS \/ isna(v) THEN "normal"
    ELSE LET t == STATUS_THRESHOLDS[key] IN
         IF v.v >= t.crit THEN "critical"
         ELSE IF v.v <= t.warn THEN "warning"
         ELSE "normal"

get_status(v, p) ==
    LET key == lower(p) IN
    IF key \notin DOMAIN STATUS_THRESHOLDS \/ isna(v) THEN "normal"
    ELSE LET t == STATUS_THRESHOLDS[key] IN
         IF v.v >= t.crit THEN "critical"
         ELSE IF v.v >= t.warn THEN "warning"
         ELSE "normal"

\* severity of a status label
Severity(s) == CASE s = "normal" -> 0 [] s = "warning" -> 1 [] s = "critical" -> 2 [] OTHER -> 3

\* get_overall_status testing "warning" before "critical"
get_overall_status_warning_first(latest_row) ==
    LET statuses == [i \in 1..Len(ThresholdKeys) |->
                        get_status(Col(latest_row, ThresholdKeys[i]), ThresholdKeys[i])] IN
    IF \E i \in DOMAIN statuses : statuses[i] = "warning" THEN "warning"
    ELSE IF \E i \in DOMAIN statuses : statuses[i] = "critical" THEN "critical"
    ELSE "normal"

get_overall_status(latest_row) ==
    LET statuses == [i \in 1..Len(ThresholdKeys) |->
                        get_status(Col(latest_row, ThresholdKeys[i]), ThresholdKeys[i])] IN
    IF \E i \in DOMAIN statuses : statuses[i] = "critical" THEN "critical"
    ELSE IF \E i \in DOMAIN statuses : statuses[i] = "warning" THEN "warning"
    ELSE "normal"

\* create_meter_gauge: the status that colours the gauge of param
create_meter_gauge(value, p) == get_status(value, p)

----------------------------------------------------------------------------
(* Time *)

\* timedelta(hours=1), seconds
HOUR == 3600
\* ttl of st.cache_resource, seconds
TTL == 30
\* st_autorefresh(interval=5000), seconds
REFRESH == 5
\* UTC offset of Asia/Kolkata, seconds
IST == 19800
\* seconds from datetime.min.time() of a date to that of the next
DAY == 86400
\* limit(200) of the Live Monitor query
LIMIT == 200

\* a timezone-aware timestamp
Stamp(i, off) == [instant |-> i, utcoffset |-> off]

\* Series.dt.tz_convert(ist): same instant, wall clock of the other zone
tz_convert(ts, off) == Stamp(ts.instant, off)

\* datetime.now(ist).date() as a day number; ist.localize(...).astimezone(utc)
date_of(i, off) == (i + off) \div DAY
start_utc(d) == d * DAY - IST
end_utc(d) == d * DAY + (DAY - 1) - IST

\* first instant of the model: one hour after midnight (IST) of day 1
StartInstant == DAY - IST + HOUR

----------------------------------------------------------------------------
(* Rows of air_compressor *)

Row(i, t, p, v) ==
    [timestamp |-> Stamp(i, 0), temperature |-> t, pressure |-> p, vibration |-> v]

\* readings of one row: all normal; temperature on its warning threshold;
\* temperature critical with pressure on its warning threshold; temperature
\* missing with pressure and vibration on their critical thresholds
ReadingsSeq == << <<Num(50), Num(5), Num(1)>>,
                 <<Num(60), Num(5), Num(1)>>,
                 <<Num(90), Num(9), Num(1)>>,
                 <<NaN, Num(12), Num(5)>> >>
\* the rows the device writes: every reading profile occurs inside the window
\* and outside or on the edge of it
RowKinds == { Row(StartInstant - HOUR - REFRESH, ReadingsSeq[1][1], ReadingsSeq[1][2], ReadingsSeq[1][3]),
              Row(StartInstant - HOUR - REFRESH, ReadingsSeq[3][1], ReadingsSeq[3][2], ReadingsSeq[3][3]),
              Row(StartInstant - HOUR, ReadingsSeq[2][1], ReadingsSeq[2][2], ReadingsSeq[2][3]),
              Row(StartInstant - HOUR, ReadingsSeq[4][1], ReadingsSeq[4][2], ReadingsSeq[4][3]),
              Row(StartInstant - REFRESH, ReadingsSeq[1][1], ReadingsSeq[1][2], ReadingsSeq[1][3]),
              Row(StartInstant - REFRESH, ReadingsSeq[3][1], ReadingsSeq[3][2], ReadingsSeq[3][3]) }

\* a sequence given as a function on 1..n, as the tuple of its values
AsSeq(f) == f \o <<>>

Reverse(s) == AsSeq([i \in 1..Len(s) |-> s[Len(s) + 1 - i]])

Take(s, n) == IF Len(s) <= n THEN s ELSE SubSeq(s, 1, n)

InstantOf(row) == row.timestamp.instant

\* rows in ascending order of timestamp, rows of equal timestamp in the order
\* they had (an insertion sort from the front)
OrderAscending(rows) == SortSeq(rows, LAMBDA a, b : InstantOf(a) < InstantOf(b))

\* rows in descending order of timestamp, rows of equal timestamp in the
\* opposite of the order they had
OrderDescending(rows) == Reverse(OrderAscending(rows))

\* DataFrame.sort_index(): ascending by timestamp; rows of equal timestamp keep
\* their order (stable) or come out in the opposite order. Sorted downwards
\* and reversed, which is quick on the descending frame it is given.
sort_index(rows, stable) ==
    Reverse(SortSeq(rows, LAMBDA a, b : IF stable THEN InstantOf(a) >= InstantOf(b)
                                                  ELSE InstantOf(a) > InstantOf(b)))

\* .order("timestamp", desc=True) without .limit(200)
query_recent_unlimited(t) == OrderDescending(t)

\* .order("timestamp", desc=True).limit(200).execute() on the table
query_recent(t) == Take(OrderDescending(t), LIMIT)

\* .gte("timestamp", start).lte("timestamp", end).order("timestamp", desc=True).execute()
query_range(t, lo, hi) ==
    LET hit == SelectSeq(t, LAMBDA r : r.timestamp.instant >= lo /\ r.timestamp.instant <= hi)
    IN OrderDescending(hit)

----------------------------------------------------------------------------
(* System log *)

\* one log message: the values interpolated into it (the message shows the
\* timestamp as %H:%M:%S, the parameter in upper case, the status, the value)
Entry(row, p, st) == [timestamp |-> row.timestamp, param |-> p, status |-> st, value |-> Col(row, p)]

\* the inner loop of generate_system_log for one parameter: prev_status is
\* "normal" at the first row and the status of the row before at every other
ScanRows(rows, p) ==
    LET current_status == AsSeq([i \in 1..Len(rows) |-> get_status(Col(rows[i], p), p)])
        prev_status == AsSeq([i \in 1..Len(rows) |->
                                 IF i = 1 THEN "normal" ELSE current_status[i - 1]])
        changed == SelectSeq([i \in 1..Len(rows) |-> i],
                             LAMBDA i : current_status[i] # prev_status[i])
    IN AsSeq([k \in 1..Len(changed) |-> Entry(rows[changed[k]], p, current_status[changed[k]])])

\* log_entries[-5:]
LastFive(s) == IF Len(s) <= 5 THEN s ELSE SubSeq(s, Len(s) - 4, Len(s))

generate_system_log(df) ==
    IF df = <<>> THEN <<>>
    ELSE LET df_rev == Reverse(df)
             all == ScanRows(df_rev, ThresholdKeys[1])
                    \o ScanRows(df_rev, ThresholdKeys[2])
                    \o ScanRows(df_rev, ThresholdKeys[3])
         IN Reverse(LastFive(all))

----------------------------------------------------------------------------
(* Trend chart *)

\* data[data.index >= one_hour_ago] with the comparison made strict
last_hour_strict(df, t) == SelectSeq(df, LAMBDA r : r.timestamp.instant > t - HOUR)

\* data[data.index >= one_hour_ago], one_hour_ago = now - timedelta(hours=1)
last_hour(df, t) == SelectSeq(df, LAMBDA r : r.timestamp.instant >= t - HOUR)

----------------------------------------------------------------------------
(* CSV export *)

DigitChars == <<"0","1","2","3","4","5","6","7","8","9">>

RECURSIVE Digits(_)
Digits(n) == IF n < 10 THEN <<DigitChars[n + 1]>>
             ELSE Digits(n \div 10) \o <<DigitChars[(n % 10) + 1]>>

IsDigit(c) == \E k \in 1..10 : DigitChars[k] = c
DigitValue(c) == (CHOOSE k \in 1..10 : DigitChars[k] = c) - 1

RECURSIVE ParseDigits(_)
ParseDigits(s) == IF s = <<>> THEN 0
                  ELSE 10 * ParseDigits(SubSeq(s, 1, Len(s) - 1)) + DigitValue(s[Len(s)])

\* text cell of a column of strings
Str(chars) == [kind |-> "str", v |-> chars]

\* the timestamp text the backend returns for an instant: here the seconds in
\* decimal followed by the UTC designator
isoformat(ts) == Digits(ts.instant) \o <<"+","0","0",":","0","0">>

\* how to_csv writes one cell: a float by its repr, a missing value as nothing
CellText(x) ==
    CASE x.kind = "num" -> Digits(x.v) \o <<".", "0">>
      [] x.kind = "str" -> x.v
      [] OTHER -> <<>>

\* how read_csv reads one cell back
IsFloatText(s) ==
    /\ Len(s) >= 3
    /\ s[Len(s) - 1] = "." /\ s[Len(s)] = "0"
    /\ \A i \in 1..(Len(s) - 2) : IsDigit(s[i])
ParseCell(s) ==
    IF s = <<>> THEN NaN
    ELSE IF IsFloatText(s) THEN Num(ParseDigits(SubSeq(s, 1, Len(s) - 2)))
    ELSE Str(s)

RECURSIVE Join(_, _)
Join(cells, sep) ==
    IF cells = <<>> THEN <<>>
    ELSE IF Len(cells) = 1 THEN cells[1]
    ELSE cells[1] \o <<sep>> \o Join(Tail(cells), sep)

\* s.split(sep)
RECURSIVE Split(_, _)
Split(s, sep) ==
    IF \A i \in 1..Len(s) : s[i] # sep THEN <<s>>
    ELSE LET k == CHOOSE i \in 1..Len(s) : s[i] = sep /\ \A j \in 1..(i - 1) : s[j] # sep
         IN <<SubSeq(s, 1, k - 1)>> \o Split(SubSeq(s, k + 1, Len(s)), sep)

RECURSIVE Lines(_)
Lines(ls) == IF ls = <<>> THEN <<>> ELSE ls[1] \o <<"\n">> \o Lines(Tail(ls))

\* ["timestamp"] + selected_params if selected_params else ["timestamp"]
display_cols(selected_params) ==
    IF selected_params # <<>> THEN <<timestamp>> \o selected_params ELSE <<timestamp>>

\* a raw row of the response as a DataFrame row: the timestamp stays the text
\* the backend sent
RawCell(row, c) == IF c = timestamp THEN Str(isoformat(row.timestamp)) ELSE Col(row, c)

\* df[display_cols]
Project(df, cols) ==
    [cols |-> cols,
     rows |-> AsSeq([i \in 1..Len(df) |->
                        AsSeq([j \in 1..Len(cols) |-> RawCell(df[i], cols[j])])])]

\* DataFrame.to_csv() with the index column written (index=True)
to_csv_with_index(frame) ==
    Lines(<<Join(<<<<>>>> \o frame.cols, ",")>> \o
          [i \in 1..Len(frame.rows) |->
              Join(<<Digits(i - 1)>> \o
                   [j \in 1..Len(frame.rows[i]) |-> CellText(frame.rows[i][j])], ",")])

\* DataFrame.to_csv(index=False): a header line, then one line per row
to_csv(frame) ==
    Lines(<<Join(frame.cols, ",")>> \o
          [i \in 1..Len(frame.rows) |->
              Join([j \in 1..Len(frame.rows[i]) |-> CellText(frame.rows[i][j])], ",")])

\* pd.read_csv of an exported text
read_csv(text) ==
    LET ls == Split(text, "\n")
        body == SubSeq(ls, 2, Len(ls) - 1)
    IN [cols |-> Split(ls[1], ","),
        rows |-> AsSeq([i \in 1..Len(body) |->
                           LET cells == Split(body[i], ",")
                           IN AsSeq([j \in 1..Len(cells) |-> ParseCell(cells[j])])])]

NoFrame == [cols |-> <<>>, rows |-> <<>>]

----------------------------------------------------------------------------
(* Supabase setup *)

\* whether the st.cache_resource entry of init_supabase is still served
CacheValid == cacheVal # "unset" /\ now - cachedAt < TTL

\* create_client(...) inside the try of init_supabase: None when it raises
create_client == IF secrets THEN "client" ELSE "None"

\* init_supabase with ttl=30: the cached value (a cached None included) while
\* the entry lives, a fresh create_client otherwise
init_supabase == IF CacheValid THEN cacheVal ELSE create_client

\* st.error of init_supabase, shown again when the cached call is replayed
InitEvents(client) == IF client = "None" THEN <<"error_init">> ELSE <<>>

----------------------------------------------------------------------------
(* Helper functions *)

\* what the backend answers to one query
Responses == {"ok", "raise", "unparsable"}

\* fetch_data that runs the query again when it raised
fetch_data_retry(client, resp, tbl, stable) ==
    IF client = "None" THEN [df |-> <<>>, events |-> <<"error_client">>, failure |-> "no_client"]
    ELSE IF resp = "raise"
    THEN [df |-> <<>>, events |-> <<"net_call", "net_call", "error_fetch">>, failure |-> "exception"]
    ELSE LET resp_data == query_recent(tbl) IN
    IF resp_data = <<>>
    THEN [df |-> <<>>, events |-> <<"net_call">>, failure |-> "empty"]
    ELSE IF resp = "unparsable"
    THEN [df |-> <<>>, events |-> <<"net_call", "error_fetch">>, failure |-> "exception"]
    ELSE [df |-> sort_index(AsSeq([i \in 1..Len(resp_data) |->
                                [resp_data[i] EXCEPT !.timestamp = tz_convert(@, IST)]]), stable),
          events |-> <<"net_call">>, failure |-> "none"]

\* fetch_data(): the frame (<<>> for pd.DataFrame()), what it called and showed,
\* and how the backend access ended
fetch_data(client, resp, tbl, stable) ==
    IF client = "None" THEN [df |-> <<>>, events |-> <<"error_client">>, failure |-> "no_client"]
    ELSE IF resp = "raise"
    THEN [df |-> <<>>, events |-> <<"net_call", "error_fetch">>, failure |-> "exception"]
    ELSE LET resp_data == query_recent(tbl) IN
    IF resp_data = <<>>
    THEN [df |-> <<>>, events |-> <<"net_call">>, failure |-> "empty"]
    ELSE IF resp = "unparsable"
    THEN [df |-> <<>>, events |-> <<"net_call", "error_fetch">>, failure |-> "exception"]
    ELSE [df |-> sort_index(AsSeq([i \in 1..Len(resp_data) |->
                                [resp_data[i] EXCEPT !.timestamp = tz_convert(@, IST)]]), stable),
          events |-> <<"net_call">>, failure |-> "none"]

\* create_main_trend_chart: one trace per selected parameter, coloured by the
\* status of its last charted value
create_main_trend_chart(df, param_to_show) ==
    IF df = <<>> THEN <<>>
    ELSE AsSeq([k \in 1..Len(param_to_show) |->
                   [name |-> param_to_show[k],
                    color |-> get_status(Col(df[Len(df)], param_to_show[k]), param_to_show[k]),
                    points |-> Len(df)]])

\* what one cycle leaves behind when a view rendered nothing of its kind
NoOutput ==
    [events |-> <<>>, failure |-> "none", data |-> <<>>, latest |-> <<>>,
     overall_status |-> "unset", gauges |-> <<>>,
     now_in_ist |-> Stamp(0, 0), chart_data |-> <<>>, chart |-> <<>>,
     log_entries |-> <<>>, shown |-> NoFrame, csv |-> <<>>]

----------------------------------------------------------------------------
(* Main application *)

\* choices offered by the two multiselects (in the order selected)
ParamSelections == { <<>>, <<vibration, temperature>>, ThresholdKeys }

\* the Live Monitor branch
LiveMonitorView(client, resp, tbl, t, stable, params_to_plot) ==
    LET f == fetch_data(client, resp, tbl, stable) IN
    IF f.df = <<>>
    THEN [NoOutput EXCEPT !.events = f.events \o <<"error_offline">>, !.failure = f.failure]
    ELSE LET last == f.df[Len(f.df)]
             cd == last_hour(f.df, t.instant)
             lg == generate_system_log(f.df)
         IN [NoOutput EXCEPT
               !.events = f.events \o <<"header", "overall", "gauge", "gauge", "gauge">>
                          \o (IF cd # <<>> THEN <<"chart">> ELSE <<"warning_no_recent">>)
                          \o [k \in 1..Len(lg) |-> "log_entry"],
               !.failure = f.failure,
               !.data = f.df,
               !.latest = last,
               !.overall_status = get_overall_status(last),
               !.gauges = AsSeq([k \in 1..Len(ThresholdKeys) |->
                              create_meter_gauge(Col(last, ThresholdKeys[k]), ThresholdKeys[k])]),
               !.now_in_ist = t,
               !.chart_data = cd,
               !.chart = create_main_trend_chart(cd, params_to_plot),
               !.log_entries = lg]

\* the Data Explorer branch rendering the table whatever the query returned
DataExplorerView_no_empty_check(client, resp, tbl, start_date, end_date, selected_params) ==
    IF client = "None"
    THEN [NoOutput EXCEPT !.events = <<"error_client">>, !.failure = "no_client"]
    ELSE LET df == query_range(tbl, start_utc(start_date), end_utc(end_date))
             frame == Project(df, display_cols(selected_params))
         IN IF resp = "raise" \/ (resp = "unparsable" /\ df # <<>>)
            THEN [NoOutput EXCEPT !.events = <<"net_call", "error_explorer">>, !.failure = "exception"]
            ELSE [NoOutput EXCEPT !.events = <<"net_call", "dataframe", "download">>,
                                  !.failure = IF df = <<>> THEN "empty" ELSE "none",
                                  !.shown = frame, !.csv = to_csv(frame)]

\* the Data Explorer branch
DataExplorerView(client, resp, tbl, start_date, end_date, selected_params) ==
    IF client = "None"
    THEN [NoOutput EXCEPT !.events = <<"error_client">>, !.failure = "no_client"]
    ELSE LET df == query_range(tbl, start_utc(start_date), end_utc(end_date))
             frame == Project(df, display_cols(selected_params))
         IN IF resp = "raise"
            THEN [NoOutput EXCEPT !.events = <<"net_call", "error_explorer">>, !.failure = "exception"]
            ELSE IF df = <<>>
            THEN [NoOutput EXCEPT !.events = <<"net_call", "warning_no_data">>, !.failure = "empty"]
            ELSE IF resp = "unparsable"
            THEN [NoOutput EXCEPT !.events = <<"net_call", "error_explorer">>, !.failure = "exception"]
            ELSE [NoOutput EXCEPT !.events = <<"net_call", "dataframe", "download">>,
                                  !.shown = frame, !.csv = to_csv(frame)]

\* the assignments one run of the script makes, given what its view produced
RunScript(mode, client, out) ==
    /\ cacheVal' = client
    /\ cachedAt' = IF CacheValid THEN cachedAt ELSE now
    /\ app_mode' = mode
    /\ supabase_client' = client
    /\ events' = InitEvents(client) \o out.events
    /\ failure' = out.failure
    /\ data' = out.data
    /\ latest' = out.latest
    /\ overall_status' = out.overall_status
    /\ gauges' = out.gauges
    /\ now_in_ist' = out.now_in_ist
    /\ chart_data' = out.chart_data
    /\ chart' = out.chart
    /\ log_entries' = out.log_entries
    /\ shown' = out.shown
    /\ csv' = out.csv
    /\ UNCHANGED <<statusVars, envVars>>

\* one run of the script with "Live Monitor" selected
LiveMonitor ==
    \E resp \in Responses, stable \in BOOLEAN, params_to_plot \in ParamSelections :
        \E out \in {LiveMonitorView(init_supabase, resp, table, Stamp(now, IST), stable, params_to_plot)} :
            RunScript("Live Monitor", init_supabase, out)

\* one run of the script with "Data Explorer" selected
DataExplorer ==
    LET today_ist == date_of(now, IST) IN
    \E resp \in Responses, selected_params \in ParamSelections,
       start_date \in {today_ist - 1, today_ist}, end_date \in {today_ist - 1, today_ist} :
        \E out \in {DataExplorerView(init_supabase, resp, table, start_date, end_date, selected_params)} :
            RunScript("Data Explorer", init_supabase, out)

----------------------------------------------------------------------------
(* Environment *)

\* the device writes one more reading
DeviceWrite(cap) ==
    /\ Len(table) < cap
    /\ \E r \in RowKinds : table' = Append(table, r)
    /\ UNCHANGED <<statusVars, secrets, now, cacheVars, cycleVars>>

\* time passes: three scheduled refreshes at once, which keeps the clock coarse
ClockStep == 3 * REFRESH
Tick ==
    /\ now + ClockStep - StartInstant <= MaxElapsed
    /\ now' = now + ClockStep
    /\ UNCHANGED <<statusVars, table, secrets, cacheVars, cycleVars>>

\* the deployment's secrets are put in place or removed
SetSecrets ==
    /\ secrets' = ~secrets
    /\ UNCHANGED <<statusVars, table, now, cacheVars, cycleVars>>

\* get_status is called on its own
GetStatusCall ==
    /\ status = "unset"
    /\ status' = get_status(val, param)
    /\ status2' = get_status(val2, param)
    /\ UNCHANGED <<val, val2, param, envVars, cacheVars, cycleVars>>

----------------------------------------------------------------------------
(* Specifications *)

Values == { Num(n) : n \in 0..MaxValue } \cup {NaN, None}

\* names get_status is called with: the configured ones, other letter cases,
\* a name without thresholds, the empty name
ParamNames == { temperature, pressure, vibration,
                <<"T","e","m","p","e","r","a","t","u","r","e">>,
                <<"P","R","E","S","S","U","R","E">>,
                <<"h","u","m","i","d","i","t","y">>,
                <<>> }

InitCycle ==
    /\ cacheVal = "unset" /\ cachedAt = 0
    /\ app_mode = "none" /\ supabase_client = "None"
    /\ events = <<>> /\ failure = "none"
    /\ data = <<>> /\ latest = <<>> /\ overall_status = "unset" /\ gauges = <<>>
    /\ now_in_ist = Stamp(0, 0)
    /\ chart_data = <<>> /\ chart = <<>> /\ log_entries = <<>>
    /\ shown = NoFrame /\ csv = <<>>

InitNoCall ==
    /\ val = Num(0) /\ val2 = Num(0) /\ param = temperature
    /\ status = "unset" /\ status2 = "unset"

\* the dashboard
Init ==
    /\ InitNoCall
    /\ table = <<>> /\ secrets \in BOOLEAN /\ now = StartInstant
    /\ InitCycle

Next == DeviceWrite(MaxRows) \/ Tick \/ SetSecrets \/ LiveMonitor \/ DataExplorer

Spec == Init /\ [][Next]_vars

\* get_status on its own
InitStatus ==
    /\ val \in Values /\ val2 \in Values /\ param \in ParamNames
    /\ status = "unset" /\ status2 = "unset"
    /\ table = <<>> /\ secrets = TRUE /\ now = StartInstant
    /\ InitCycle

NextStatus == GetStatusCall

SpecStatus == InitStatus /\ [][NextStatus]_vars

\* a table the device has filled every REFRESH seconds, one row short of the
\* query limit
BigTable(n) ==
    AsSeq([i \in 1..n |->
        LET r == ReadingsSeq[(i % Len(ReadingsSeq)) + 1]
        IN Row(StartInstant - REFRESH * (n + 1 - i), r[1], r[2], r[3])])

InitFetch ==
    /\ InitNoCall
    /\ table = BigTable(LIMIT - 1) /\ secrets = TRUE /\ now = StartInstant
    /\ InitCycle

NextFetch == DeviceWrite(LIMIT + MaxOver) \/ LiveMonitor

SpecFetch == InitFetch /\ [][NextFetch]_vars

----------------------------------------------------------------------------
(* Properties *)

Banners == {"error_init", "error_client", "error_fetch", "error_offline",
            "error_explorer", "warning_no_recent", "warning_no_data"}

\* what is rendered from sensor data
Renders == {"header", "overall", "gauge", "chart", "log_entry", "dataframe", "download"}

Count(s, x) == Cardinality({ i \in DOMAIN s : s[i] = x })

Configured(p) == p \in DOMAIN STATUS_THRESHOLDS

Called == status # "unset"

LiveRendered == app_mode = "Live Monitor" /\ failure = "none"

\* C1 as stated: for a configured parameter and a numeric value, get_status
\* returns critical when value > crit, otherwise warning when value > warn,
\* otherwise normal, so a value equal to a threshold falls in the lower band.
C1_StrictBands ==
    (Called /\ Configured(param) /\ val.kind = "num") =>
        status = (IF val.v > STATUS_THRESHOLDS[param].crit THEN "critical"
                  ELSE IF val.v > STATUS_THRESHOLDS[param].warn THEN "warning"
                  ELSE "normal")

\* C1 amended: for a configured parameter and a numeric value, get_status
\* returns critical when value >= crit, otherwise warning when value >= warn,
\* otherwise normal, so a value equal to a threshold falls in the upper band.
C1_InclusiveBands ==
    (Called /\ Configured(param) /\ val.kind = "num") =>
        status = (IF val.v >= STATUS_THRESHOLDS[param].crit THEN "critical"
                  ELSE IF val.v >= STATUS_THRESHOLDS[param].warn THEN "warning"
                  ELSE "normal")

\* a temperature exactly on the warning threshold has been classified
C1_Witness ==
    Called /\ param = temperature /\ val = Num(STATUS_THRESHOLDS[temperature].warn)
           /\ status = "warning"

\* C2: for a configured parameter and numeric values v1 <= v2, the severity of
\* get_status(v1) is not higher than the severity of get_status(v2).
C2_Monotonic ==
    (Called /\ Configured(param) /\ val.kind = "num" /\ val2.kind = "num" /\ val.v <= val2.v) =>
        Severity(status) <= Severity(status2)

\* two values in different bands have been classified
C2_Witness ==
    Called /\ Configured(param) /\ val.kind = "num" /\ val2.kind = "num" /\ val.v < val2.v
           /\ status = "warning" /\ status2 = "critical"

\* C3: for every value (NaN and None included) and every name (any letter
\* case, unconfigured names included) get_status returns one of normal, warning,
\* critical, and the call shows nothing and leaves the rest of the state alone.
C3_Total ==
    Called =>
        /\ status \in Statuses /\ status2 \in Statuses
        /\ events = <<>> /\ app_mode = "none" /\ table = <<>>

\* a missing reading of an upper-case name and a None have been classified
C3_Witness ==
    Called /\ val = NaN /\ val2 = None /\ param # lower(param) /\ status = "normal"

\* C4: the rows handed to the trend chart are exactly the fetched rows whose
\* timestamp is >= now - 1 hour (the edge included), and the chart is drawn
\* exactly when there is such a row.
C4_LastHour ==
    LiveRendered =>
        /\ \A i \in DOMAIN chart_data :
              chart_data[i].timestamp.instant >= now_in_ist.instant - HOUR
        /\ chart_data = SelectSeq(data, LAMBDA r :
                            r.timestamp.instant >= now_in_ist.instant - HOUR)
        /\ (Count(events, "chart") = 1) = (chart_data # <<>>)
        /\ (chart # <<>>) => (chart_data # <<>>)
        /\ now_in_ist.instant <= now

\* a row exactly one hour old is charted while an older fetched row is not
C4_Witness ==
    /\ LiveRendered
    /\ \E i \in DOMAIN chart_data : chart_data[i].timestamp.instant = now_in_ist.instant - HOUR
    /\ \E i \in DOMAIN data : data[i].timestamp.instant < now_in_ist.instant - HOUR
    /\ Count(events, "chart") = 1

\* C5: in both views a failed backend access (no client, an exception, an empty
\* result) ends the cycle with a banner shown, nothing rendered from sensor
\* data, and the call made at most once.
C5_FailureBanner ==
    (app_mode # "none" /\ failure # "none") =>
        /\ \E i \in DOMAIN events : events[i] \in Banners
        /\ \A i \in DOMAIN events : events[i] \notin Renders
        /\ Count(events, "net_call") <= 1
        /\ data = <<>> /\ shown = NoFrame /\ csv = <<>>

\* the query of a Live Monitor cycle raised with the client in place
C5_Witness ==
    app_mode = "Live Monitor" /\ supabase_client = "client" /\ failure = "exception"
        /\ Count(events, "net_call") = 1

\* C6: the CSV offered for download holds exactly the rows and columns shown in
\* the table, so reading it back gives the same columns, row count and values;
\* the table is shown exactly when the download is offered.
C6_CsvRoundTrip ==
    /\ (Count(events, "dataframe") = 1) = (Count(events, "download") = 1)
    /\ (app_mode = "Data Explorer" /\ failure = "none") =>
          /\ Count(events, "download") = 1
          /\ shown.rows # <<>>
          /\ read_csv(csv) = shown

\* two rows have been exported with no parameter selected
C6_Witness ==
    /\ app_mode = "Data Explorer" /\ Count(events, "download") = 1
    /\ shown.cols = <<timestamp>> /\ Len(shown.rows) = 2

\* every render event of the cycle comes after a network call
RendersAfterCall ==
    \A i \in DOMAIN events :
        events[i] \in Renders => \E j \in 1..(i - 1) : events[j] = "net_call"

\* C7 as stated: every cycle issues at least one network call and completes it
\* before anything derived from sensor data is rendered, also while a cached
\* failed client is in use.
C7_AlwaysCalls ==
    app_mode # "none" => (Count(events, "net_call") >= 1 /\ RendersAfterCall)

\* C7 amended: a cycle whose client is initialised issues exactly one network
\* call and completes it before anything derived from sensor data is rendered;
\* a cycle whose client is None (a failed initialisation, also while the cached
\* None is served) issues no network call and renders nothing from sensor data.
C7_CallsWithClient ==
    app_mode # "none" =>
        /\ supabase_client = "client" => (Count(events, "net_call") = 1 /\ RendersAfterCall)
        /\ supabase_client = "None" =>
              /\ Count(events, "net_call") = 0
              /\ \A i \in DOMAIN events : events[i] \notin Renders

\* a Live Monitor cycle ran on a None cached at an earlier time, with the
\* secrets in place by now, and issued no network call
C7_Witness ==
    /\ app_mode = "Live Monitor" /\ supabase_client = "None" /\ cacheVal = "None"
    /\ cachedAt < now /\ now - cachedAt < TTL /\ secrets
    /\ Count(events, "net_call") = 0 /\ Count(events, "error_offline") = 1

\* the status changes of the fetched rows in chronological order: reading i of
\* parameter p differs from the reading before it (the first from normal)
ChronologicalEvents(df) ==
    { e \in (DOMAIN df) \X DOMAIN STATUS_THRESHOLDS :
        get_status(Col(df[e[1]], e[2]), e[2]) #
            (IF e[1] = 1 THEN "normal" ELSE get_status(Col(df[e[1] - 1], e[2]), e[2])) }

EventEntry(df, e) == Entry(df[e[1]], e[2], get_status(Col(df[e[1]], e[2]), e[2]))

\* C8: the log holds an entry exactly for status changes met scanning each
\* parameter from oldest to newest, at most 5 of them, the most recent ones by
\* timestamp, newest first.
C8_ChronologicalLog ==
    LiveRendered =>
        LET E == ChronologicalEvents(data)
            entries == { EventEntry(data, e) : e \in E }
            logged == { log_entries[k] : k \in DOMAIN log_entries }
        IN /\ Len(log_entries) = (IF Cardinality(E) <= 5 THEN Cardinality(E) ELSE 5)
           /\ logged \subseteq entries
           /\ \A k, l \in DOMAIN log_entries :
                 k < l => log_entries[k].timestamp.instant >= log_entries[l].timestamp.instant
           /\ \A x \in entries \ logged : \A y \in logged :
                 x.timestamp.instant <= y.timestamp.instant

\* C9: fetch_data returns at most 200 rows in non-decreasing timestamp order,
\* and the row taken as latest is the last one and has the greatest timestamp.
C9_SortedLatest ==
    LiveRendered =>
        /\ Len(data) <= LIMIT /\ Len(data) <= Len(table)
        /\ \A i \in 1..(Len(data) - 1) :
              data[i].timestamp.instant <= data[i + 1].timestamp.instant
        /\ latest = data[Len(data)]
        /\ \A i \in DOMAIN data : data[i].timestamp.instant <= latest.timestamp.instant

\* the table holds more rows than the limit and exactly 200 were fetched
C9_Witness ==
    LiveRendered /\ Len(table) > LIMIT /\ Len(data) = LIMIT
        /\ \E i \in DOMAIN data : data[i].timestamp.instant < latest.timestamp.instant

\* C10: the overall status is the highest severity among the three gauge
\* statuses of the latest reading, so never less severe than any gauge.
C10_OverallIsMax ==
    LiveRendered =>
        /\ Len(gauges) = Len(ThresholdKeys)
        /\ \A k \in DOMAIN gauges : Severity(gauges[k]) <= Severity(overall_status)
        /\ \E k \in DOMAIN gauges : gauges[k] = overall_status
        /\ \A k \in DOMAIN gauges : gauges[k] = get_status(Col(latest, ThresholdKeys[k]), ThresholdKeys[k])

\* the overall status is critical while a gauge shows warning
C10_Witness ==
    LiveRendered /\ overall_status = "critical" /\ \E k \in DOMAIN gauges : gauges[k] = "warning"

====
